---- MODULE Spec2Model ----
(***************************************************************************)
(* A model of the two-pass RISC-V assembler in src/Assembler.              *)
(*                                                                         *)
(* Text is modelled at character level: a C string is the sequence of its  *)
(* characters up to (not including) the terminating NUL, each character a  *)
(* one-character string.  A line read by fgets keeps its "\n".             *)
(*                                                                         *)
(* A 32-bit word (unsigned int machine_code, and the bit pattern of the    *)
(* signed int imm) is a function from bit position 0..31 (0 = least        *)
(* significant) to {0,1}.  The source is GNU C (0b... literals); GCC       *)
(* defines << on signed int as the two's-complement shift with the bits    *)
(* shifted out of the 32-bit word discarded, and that is what Shl does.    *)
(*                                                                         *)
(* Buffers: the model's lines keep every token shorter than the 20-byte    *)
(* token buffers, and every labelled line within the buffers label[30] and *)
(* temp_inst[50] splitString copies into.  An unlabelled line of 30        *)
(* characters or more overruns label[30]: that is undefined behaviour,     *)
(* modelled as the choice among what the overrun may have overwritten.     *)
(* So is add_label on a full labelTable: the entry lands behind the array, *)
(* where a later find_label_address reads it back, or the process is       *)
(* killed.                                                                 *)
(***************************************************************************)
EXTENDS Integers, Sequences, FiniteSets, TLC

\* ------------------------------------------------------------------------
\* 32-bit words
\* ------------------------------------------------------------------------

BitPos == 0..31

\* The two's-complement bit pattern of a C int n (-2^31 <= n < 2^31).
Bits(n) == [i \in BitPos |-> IF i = 31 THEN (IF n < 0 THEN 1 ELSE 0)
                                       ELSE (n \div (2^i)) % 2]

\* unsigned int machine_code = 0;
Zero32 == [i \in BitPos |-> 0]

\* a & b
And(a, b) == [i \in BitPos |-> a[i] * b[i]]

\* a | b
Or(a, b) == [i \in BitPos |-> IF a[i] = 1 \/ b[i] = 1 THEN 1 ELSE 0]

\* a << n on a 32-bit int: bits shifted past bit 31 are lost.
Shl(a, n) == [i \in BitPos |-> IF i >= n THEN a[i - n] ELSE 0]

\* a >> n on a signed int: the sign bit is replicated.
Shr(a, n) == [i \in BitPos |-> IF i + n <= 31 THEN a[i + n] ELSE a[31]]

\* ------------------------------------------------------------------------
\* C library: <ctype.h>, <string.h>, <stdlib.h>, <stdio.h>
\* ------------------------------------------------------------------------

\* isspace in the "C" locale (the vertical tab is not in the model's alphabet).
isspace(c) == c \in {" ", "\t", "\n", "\r", "\f"}

\* strchr(str, c) as an index: the first position of c in str, 0 when absent.
strchr(str, c) ==
    IF \E i \in 1..Len(str) : str[i] = c
    THEN CHOOSE i \in 1..Len(str) : str[i] = c /\ \A j \in 1..(i - 1) : str[j] # c
    ELSE 0

\* strncmp(str, prefix, Len(prefix)) == 0
HasPrefix(str, prefix) ==
    /\ Len(str) >= Len(prefix)
    /\ SubSeq(str, 1, Len(prefix)) = prefix

\* The first index >= i of str that holds a non-space character (Len+1: none).
RECURSIVE SkipSpace(_, _)
SkipSpace(str, i) ==
    IF i <= Len(str) /\ isspace(str[i]) THEN SkipSpace(str, i + 1) ELSE i

\* The first index >= i of str that holds a space character (Len+1: none).
RECURSIVE TokenEnd(_, _)
TokenEnd(str, i) ==
    IF i <= Len(str) /\ ~isspace(str[i]) THEN TokenEnd(str, i + 1) ELSE i

\* The %s conversions of one sscanf call: up to n whitespace-delimited tokens
\* of str read from index i on.  TokenFrom reads the token that begins at b,
\* TokenTo the one that spans b..e-1.
RECURSIVE ScanTokens(_, _, _)
TokenTo(str, b, e, n) == << SubSeq(str, b, e - 1) >> \o ScanTokens(str, e, n - 1)
TokenFrom(str, b, n) ==
    IF n = 0 \/ b > Len(str) THEN << >> ELSE TokenTo(str, b, TokenEnd(str, b), n)
ScanTokens(str, i, n) == TokenFrom(str, SkipSpace(str, i), n)

\* What sscanf returns for the converted tokens f: EOF (-1) when the input
\* ended before the first conversion, their number otherwise.
Scanned(f) == [field |-> f, count |-> IF f = << >> THEN -1 ELSE Len(f)]

\* sscanf(str, "%s %s %s %s", ...) with n conversions.
sscanf(str, n) == Scanned(ScanTokens(str, 1, n))

HexDigits == << "0", "1", "2", "3", "4", "5", "6", "7",
                "8", "9", "a", "b", "c", "d", "e", "f" >>

UpperHexDigits == << "0", "1", "2", "3", "4", "5", "6", "7",
                     "8", "9", "A", "B", "C", "D", "E", "F" >>

\* The value of digit character c in the given base, -1 when c is no digit of it.
DigitVal(c, base) ==
    IF \E d \in 1..base : HexDigits[d] = c \/ UpperHexDigits[d] = c
    THEN (CHOOSE d \in 1..base : HexDigits[d] = c \/ UpperHexDigits[d] = c) - 1
    ELSE -1

\* The digits of str from index i on, accumulated onto acc, up to the first
\* character that is no digit of the base.
RECURSIVE Accumulate(_, _, _, _)
Accumulate(str, i, base, acc) ==
    IF i <= Len(str) /\ DigitVal(str[i], base) >= 0
    THEN Accumulate(str, i + 1, base, acc * base + DigitVal(str[i], base))
    ELSE acc

\* Whether str holds, at index d, a 0x/0X that a hex digit follows.
HexPrefixAt(str, d) ==
    /\ d + 2 <= Len(str)
    /\ str[d] = "0"
    /\ str[d + 1] \in {"x", "X"}
    /\ DigitVal(str[d + 2], 16) >= 0

\* The number strtol reads at index s of str, the first non-space character:
\* an optional sign, for base 16 an optional 0x/0X prefix, then digits.
SignedDigits(str, s, base) ==
    IF s <= Len(str) /\ str[s] = "-"
    THEN -Accumulate(str, IF base = 16 /\ HexPrefixAt(str, s + 1) THEN s + 3 ELSE s + 1,
                     base, 0)
    ELSE IF s <= Len(str) /\ str[s] = "+"
    THEN Accumulate(str, IF base = 16 /\ HexPrefixAt(str, s + 1) THEN s + 3 ELSE s + 1,
                    base, 0)
    ELSE Accumulate(str, IF base = 16 /\ HexPrefixAt(str, s) THEN s + 2 ELSE s, base, 0)

\* strtol(str, NULL, base) for base 10 and 16, after the leading white space.
strtol(str, base) == SignedDigits(str, SkipSpace(str, 1), base)

\* atoi(str)
atoi(str) == strtol(str, 10)

\* ------------------------------------------------------------------------
\* assembler.c: symbol table and text helpers
\* ------------------------------------------------------------------------

\* The string literals of the source, as character sequences.
Txt ==
    [ add |-> <<"a", "d", "d">>,
      sub |-> <<"s", "u", "b">>,
      or |-> <<"o", "r">>,
      and |-> <<"a", "n", "d">>,
      xor |-> <<"x", "o", "r">>,
      sll |-> <<"s", "l", "l">>,
      srl |-> <<"s", "r", "l">>,
      sra |-> <<"s", "r", "a">>,
      slt |-> <<"s", "l", "t">>,
      sltu |-> <<"s", "l", "t", "u">>,
      addi |-> <<"a", "d", "d", "i">>,
      slli |-> <<"s", "l", "l", "i">>,
      slti |-> <<"s", "l", "t", "i">>,
      sltiu |-> <<"s", "l", "t", "i", "u">>,
      xori |-> <<"x", "o", "r", "i">>,
      srli |-> <<"s", "r", "l", "i">>,
      srai |-> <<"s", "r", "a", "i">>,
      ori |-> <<"o", "r", "i">>,
      andi |-> <<"a", "n", "d", "i">>,
      jalr |-> <<"j", "a", "l", "r">>,
      beq |-> <<"b", "e", "q">>,
      bne |-> <<"b", "n", "e">>,
      blt |-> <<"b", "l", "t">>,
      bgt |-> <<"b", "g", "t">>,
      bge |-> <<"b", "g", "e">>,
      ble |-> <<"b", "l", "e">>,
      bltu |-> <<"b", "l", "t", "u">>,
      bgeu |-> <<"b", "g", "e", "u">>,
      lb |-> <<"l", "b">>,
      lh |-> <<"l", "h">>,
      lw |-> <<"l", "w">>,
      lbu |-> <<"l", "b", "u">>,
      lhu |-> <<"l", "h", "u">>,
      sb |-> <<"s", "b">>,
      sh |-> <<"s", "h">>,
      sw |-> <<"s", "w">>,
      auipc |-> <<"a", "u", "i", "p", "c">>,
      lui |-> <<"l", "u", "i">>,
      jal |-> <<"j", "a", "l">>,
      li |-> <<"l", "i">>,
      mv |-> <<"m", "v">>,
      j |-> <<"j">>,
      jr |-> <<"j", "r">>,
      ret |-> <<"r", "e", "t">>,
      x0 |-> <<"x", "0">>,
      zero |-> <<"z", "e", "r", "o">>,
      x1 |-> <<"x", "1">>,
      ra |-> <<"r", "a">>,
      x2 |-> <<"x", "2">>,
      sp |-> <<"s", "p">>,
      x3 |-> <<"x", "3">>,
      gp |-> <<"g", "p">>,
      x4 |-> <<"x", "4">>,
      tp |-> <<"t", "p">>,
      x5 |-> <<"x", "5">>,
      t0 |-> <<"t", "0">>,
      x6 |-> <<"x", "6">>,
      t1 |-> <<"t", "1">>,
      x7 |-> <<"x", "7">>,
      t2 |-> <<"t", "2">>,
      x8 |-> <<"x", "8">>,
      s0 |-> <<"s", "0">>,
      x9 |-> <<"x", "9">>,
      s1 |-> <<"s", "1">>,
      x10 |-> <<"x", "1", "0">>,
      a0 |-> <<"a", "0">>,
      x11 |-> <<"x", "1", "1">>,
      a1 |-> <<"a", "1">>,
      x12 |-> <<"x", "1", "2">>,
      a2 |-> <<"a", "2">>,
      x13 |-> <<"x", "1", "3">>,
      a3 |-> <<"a", "3">>,
      x14 |-> <<"x", "1", "4">>,
      a4 |-> <<"a", "4">>,
      x15 |-> <<"x", "1", "5">>,
      a5 |-> <<"a", "5">>,
      x16 |-> <<"x", "1", "6">>,
      a6 |-> <<"a", "6">>,
      x17 |-> <<"x", "1", "7">>,
      a7 |-> <<"a", "7">>,
      x18 |-> <<"x", "1", "8">>,
      s2 |-> <<"s", "2">>,
      x19 |-> <<"x", "1", "9">>,
      s3 |-> <<"s", "3">>,
      x20 |-> <<"x", "2", "0">>,
      s4 |-> <<"s", "4">>,
      x21 |-> <<"x", "2", "1">>,
      s5 |-> <<"s", "5">>,
      x22 |-> <<"x", "2", "2">>,
      s6 |-> <<"s", "6">>,
      x23 |-> <<"x", "2", "3">>,
      s7 |-> <<"s", "7">>,
      x24 |-> <<"x", "2", "4">>,
      s8 |-> <<"s", "8">>,
      x25 |-> <<"x", "2", "5">>,
      s9 |-> <<"s", "9">>,
      x26 |-> <<"x", "2", "6">>,
      s10 |-> <<"s", "1", "0">>,
      x27 |-> <<"x", "2", "7">>,
      s11 |-> <<"s", "1", "1">>,
      x28 |-> <<"x", "2", "8">>,
      t3 |-> <<"t", "3">>,
      x29 |-> <<"x", "2", "9">>,
      t4 |-> <<"t", "4">>,
      x30 |-> <<"x", "3", "0">>,
      t5 |-> <<"t", "5">>,
      x31 |-> <<"x", "3", "1">>,
      t6 |-> <<"t", "6">> ]

\* #define MAX_INSTRUCTIONS 100: the capacity of labelTable.
MAX_INSTRUCTIONS == 100


\* A faulty add_label that stores the index of the last counted instruction
\* instead of the index of the next one.
add_label_of_previous(tab, label, address) ==
    [labelTable |-> [i \in DOMAIN tab.labelTable \cup {tab.labelCount} |->
                        IF i = tab.labelCount
                        THEN [label |-> label, address |-> address - 1]
                        ELSE tab.labelTable[i]],
     labelCount |-> tab.labelCount + 1]

\* add_label: labelTable[labelCount] = (label, address); labelCount++.
\* tab is the pair [labelTable, labelCount]; labelTable maps index -> entry.
add_label(tab, label, address) ==
    [labelTable |-> [i \in DOMAIN tab.labelTable \cup {tab.labelCount} |->
                        IF i = tab.labelCount
                        THEN [label |-> label, address |-> address]
                        ELSE tab.labelTable[i]],
     labelCount |-> tab.labelCount + 1]

\* find_label_address: the address of the first entry i < labelCount whose
\* name equals label, -1 when there is none.
find_label_address(tab, label) ==
    IF \E i \in 0..(tab.labelCount - 1) : tab.labelTable[i].label = label
    THEN tab.labelTable[CHOOSE i \in 0..(tab.labelCount - 1) :
                          /\ tab.labelTable[i].label = label
                          /\ \A k \in 0..(i - 1) : tab.labelTable[k].label # label].address
    ELSE -1

\* remove_colon: drops a trailing ':'.
remove_colon(str) ==
    IF Len(str) > 0 /\ str[Len(str)] = ":" THEN SubSeq(str, 1, Len(str) - 1) ELSE str

\* if (reg_num >= 0 && reg_num <= 31) return reg_num; ... return -1;
RegisterRange(reg_num) == IF reg_num >= 0 /\ reg_num <= 31 THEN reg_num ELSE -1

\* A faulty get_register_number that knows the numeric names only.
get_register_number_numeric_only(reg) ==
    IF HasPrefix(reg, <<"x">>) /\ Len(reg) > 1 THEN RegisterRange(atoi(Tail(reg))) ELSE -1

\* get_register_number: the index of a register name, -1 for an invalid one.
get_register_number(reg) ==
    IF reg = Txt.x0 \/ reg = Txt.zero THEN 0
    ELSE IF reg = Txt.x1 \/ reg = Txt.ra THEN 1
    ELSE IF reg = Txt.x2 \/ reg = Txt.sp THEN 2
    ELSE IF reg = Txt.x3 \/ reg = Txt.gp THEN 3
    ELSE IF reg = Txt.x4 \/ reg = Txt.tp THEN 4
    ELSE IF reg = Txt.x5 \/ reg = Txt.t0 THEN 5
    ELSE IF reg = Txt.x6 \/ reg = Txt.t1 THEN 6
    ELSE IF reg = Txt.x7 \/ reg = Txt.t2 THEN 7
    ELSE IF reg = Txt.x8 \/ reg = Txt.s0 THEN 8
    ELSE IF reg = Txt.x9 \/ reg = Txt.s1 THEN 9
    ELSE IF reg = Txt.x10 \/ reg = Txt.a0 THEN 10
    ELSE IF reg = Txt.x11 \/ reg = Txt.a1 THEN 11
    ELSE IF reg = Txt.x12 \/ reg = Txt.a2 THEN 12
    ELSE IF reg = Txt.x13 \/ reg = Txt.a3 THEN 13
    ELSE IF reg = Txt.x14 \/ reg = Txt.a4 THEN 14
    ELSE IF reg = Txt.x15 \/ reg = Txt.a5 THEN 15
    ELSE IF reg = Txt.x16 \/ reg = Txt.a6 THEN 16
    ELSE IF reg = Txt.x17 \/ reg = Txt.a7 THEN 17
    ELSE IF reg = Txt.x18 \/ reg = Txt.s2 THEN 18
    ELSE IF reg = Txt.x19 \/ reg = Txt.s3 THEN 19
    ELSE IF reg = Txt.x20 \/ reg = Txt.s4 THEN 20
    ELSE IF reg = Txt.x21 \/ reg = Txt.s5 THEN 21
    ELSE IF reg = Txt.x22 \/ reg = Txt.s6 THEN 22
    ELSE IF reg = Txt.x23 \/ reg = Txt.s7 THEN 23
    ELSE IF reg = Txt.x24 \/ reg = Txt.s8 THEN 24
    ELSE IF reg = Txt.x25 \/ reg = Txt.s9 THEN 25
    ELSE IF reg = Txt.x26 \/ reg = Txt.s10 THEN 26
    ELSE IF reg = Txt.x27 \/ reg = Txt.s11 THEN 27
    ELSE IF reg = Txt.x28 \/ reg = Txt.t3 THEN 28
    ELSE IF reg = Txt.x29 \/ reg = Txt.t4 THEN 29
    ELSE IF reg = Txt.x30 \/ reg = Txt.t5 THEN 30
    ELSE IF reg = Txt.x31 \/ reg = Txt.t6 THEN 31
    \* Additional check for "xN" format
    ELSE IF HasPrefix(reg, <<"x">>) THEN RegisterRange(atoi(Tail(reg)))
    ELSE -1

\* The value an int takes when stored in an unsigned char (rd_num, rs1_num,
\* rs2_num): -1 becomes 255.
UChar(n) == n % 256

\* replaceCommas: every ',' becomes ' '.
replaceCommas(str) == [i \in 1..Len(str) |-> IF str[i] = "," THEN " " ELSE str[i]]

\* removeBracket: the string ends at its first ')'; every '(' before it
\* becomes ' '.
removeBracket(str) ==
    [i \in 1..(IF strchr(str, ")") = 0 THEN Len(str) ELSE strchr(str, ")") - 1) |->
        IF str[i] = "(" THEN " " ELSE str[i]]

\* separateImmediate: the string ends at its first '('.
separateImmediate(str) ==
    IF strchr(str, "(") = 0 THEN str ELSE SubSeq(str, 1, strchr(str, "(") - 1)

\* separate_rs1: every character up to and including the first '(' becomes
\* ' ' (all of them when there is no '('), and so does every later '('; the
\* ')' branch compares and assigns nothing.
separate_rs1(str) ==
    [i \in 1..Len(str) |->
        IF str[i] = "(" THEN " "
        ELSE IF strchr(str, "(") = 0 \/ i < strchr(str, "(") THEN " "
        ELSE str[i]]

\* removeComment: the string ends at its first '#'.
removeComment(str) ==
    IF strchr(str, "#") = 0 THEN str ELSE SubSeq(str, 1, strchr(str, "#") - 1)

\* splitString: before = the text up to the first ':', after = the text
\* behind it; without a ':' before is the whole string and after is empty.
splitString(str) ==
    IF strchr(str, ":") # 0
    THEN [before |-> SubSeq(str, 1, strchr(str, ":") - 1),
          after |-> SubSeq(str, strchr(str, ":") + 1, Len(str))]
    ELSE [before |-> str, after |-> << >>]

\* char label[30]: the buffer splitString copies an unlabelled line into.
LabelSize == 30

\* char opcode[20], rd[20], rs1[20], rs2[20]
TokenSize == 20

\* strcpy(before, str) writes Len(str) + 1 bytes into label[30].  (The
\* labelled lines of the model stay within label[30] and temp_inst[50].)
Overruns(str) == strchr(str, ":") = 0 /\ Len(str) >= LabelSize

\* What the overrun leaves in a buffer that starts d bytes behind the start
\* of label[]: the line from offset d on.
Overwritten(str) == { SubSeq(str, d + 1, Len(str)) : d \in LabelSize..Len(str) }

\* The locals count, opcode, rd, rs1, rs2 when splitString has returned: s is
\* what sscanf stored in them before the call.  Without an overrun they are
\* untouched.  With one, the bytes behind label[] belong to whatever the
\* build placed there: nothing that is read again, or one of the token buffers
\* (buffers are TokenSize bytes apart and the lines of the model are shorter
\* than LabelSize + TokenSize, so the overrun reaches the start of at most
\* one of them), or count, whose low byte becomes
\* a character of the line or the terminating NUL, a value outside 1..4 that
\* selects no branch (0 here).
AfterSplit(s, str) ==
    IF ~Overruns(str) THEN { s }
    ELSE LET tokens == { s } \cup { [s EXCEPT !.field[f] = t] :
                                      f \in 1..Len(s.field), t \in Overwritten(str) }
         IN  tokens \cup { [t EXCEPT !.count = 0] : t \in tokens }

\* Whether the call may end the process instead of returning (the overrun
\* reaches the return address or a stack protector's canary).
MayKill(str) == IF Overruns(str) THEN BOOLEAN ELSE { FALSE }

\* A faulty convertToDecimal that knows no hexadecimal: every literal goes
\* through strtol in base 10, which reads "0x12345" as 0.
convertToDecimal_base10(str) == strtol(str, 10)

\* convertToDecimal: strtol in base 16 for a string that starts with "0x",
\* in base 10 otherwise.
convertToDecimal(str) ==
    IF HasPrefix(str, <<"0", "x">>) THEN strtol(str, 16) ELSE strtol(str, 10)

\* ------------------------------------------------------------------------
\* assembler.c: first_pass
\* ------------------------------------------------------------------------

\* A faulty list of first_pass that lacks the one-field branch for ret, so
\* that pass one does not count the lines pass two assembles as ret.
FirstPassOpcodes_without_ret(count) ==
    IF count = 4 THEN
        { Txt.add, Txt.sub, Txt.or, Txt.and, Txt.xor, Txt.sll, Txt.srl, Txt.sra,
          Txt.slt, Txt.sltu,
          Txt.addi, Txt.slli, Txt.slti, Txt.sltiu, Txt.xori, Txt.srli, Txt.srai,
          Txt.ori, Txt.andi,
          Txt.jalr, Txt.beq, Txt.bne, Txt.blt, Txt.bge, Txt.bltu, Txt.bgeu,
          Txt.bgt, Txt.ble }
    ELSE IF count = 3 THEN
        { Txt.lb, Txt.lh, Txt.lw, Txt.lbu, Txt.lhu, Txt.sb, Txt.sh, Txt.sw,
          Txt.auipc, Txt.lui, Txt.jal,
          Txt.mv, Txt.li }
    ELSE IF count = 2 THEN { Txt.j, Txt.jr }
    ELSE {}

\* The mnemonics first_pass counts, by the number of fields sscanf converted.
FirstPassOpcodes(count) ==
    IF count = 4 THEN
        { Txt.add, Txt.sub, Txt.or, Txt.and, Txt.xor, Txt.sll, Txt.srl, Txt.sra,
          Txt.slt, Txt.sltu,
          Txt.addi, Txt.slli, Txt.slti, Txt.sltiu, Txt.xori, Txt.srli, Txt.srai,
          Txt.ori, Txt.andi,
          Txt.jalr, Txt.beq, Txt.bne, Txt.blt, Txt.bge, Txt.bltu, Txt.bgeu,
          Txt.bgt, Txt.ble }
    ELSE IF count = 3 THEN
        { Txt.lb, Txt.lh, Txt.lw, Txt.lbu, Txt.lhu, Txt.sb, Txt.sh, Txt.sw,
          Txt.auipc, Txt.lui, Txt.jal,
          Txt.mv, Txt.li }
    ELSE IF count = 2 THEN { Txt.j, Txt.jr }
    ELSE IF count = 1 THEN { Txt.ret }
    ELSE {}

\* The instruction text both passes parse: the text behind the
\* first ':' when that is not empty, the whole line otherwise.
Body(instruction, sp) == IF sp.after # << >> THEN sp.after ELSE instruction

\* Whether first_pass counts the line whose sscanf result is s.
Counted(s) == s.count >= 1 /\ s.field[1] \in FirstPassOpcodes(s.count)

\* sscanf(label, "%s", label2): label2 keeps its uninitialised content when
\* label holds no token.
Label2(l2, uninit) == IF l2.count = 1 THEN l2.field[1] ELSE uninit

FirstPassOn(s, instruction, sp, tab, instruction_count, uninit) ==
    [tab |-> IF sp.after # << >>
             THEN add_label(tab, Label2(sscanf(remove_colon(sp.before), 1), uninit),
                            instruction_count + 1)
             ELSE tab,
     instruction_count |->
         IF Counted(s)
         THEN instruction_count + 1 ELSE instruction_count,
     instruction |-> Body(instruction, sp)]

\* first_pass(instruction) on the globals tab = [labelTable, labelCount] and
\* instruction_count.  uninit is the content of the uninitialised buffer
\* label2, which add_label copies when the text before the ':' holds no token.
\* The result: the globals and the instruction buffer as the call leaves them.
first_pass(instruction, tab, instruction_count, uninit) ==
    FirstPassOn(sscanf(Body(instruction, splitString(instruction)), 4),
                instruction, splitString(instruction), tab, instruction_count, uninit)

\* ------------------------------------------------------------------------
\* assembler.c: assemble_instruction
\* ------------------------------------------------------------------------

\* machine_code |= f1; machine_code |= f2; ... starting from 0.
RECURSIVE OrAll(_)
OrAll(fields) ==
    IF fields = << >> THEN Zero32
    ELSE Or(OrAll(SubSeq(fields, 1, Len(fields) - 1)), fields[Len(fields)])

\* ((num & 0x1F) << sh) for a register number held in an unsigned char.
RegField(num, sh) == Shl(And(Bits(UChar(num)), Bits(\h1F)), sh)

\* A faulty R_type with the two source registers exchanged.
R_type_sources_swapped(rd, rs1, rs2, funct3, funct7) ==
    OrAll(<< Bits(\b0110011),
             RegField(get_register_number(rd), 7),
             Shl(Bits(funct3), 12),
             RegField(get_register_number(rs2), 15),
             RegField(get_register_number(rs1), 20),
             Shl(Bits(funct7), 25) >>)

\* add, sub, or, and, xor, sll, srl, sra, slt, sltu.
R_type(rd, rs1, rs2, funct3, funct7) ==
    LET rd_num == get_register_number(rd)
        rs1_num == get_register_number(rs1)
        rs2_num == get_register_number(rs2)
    IN  OrAll(<< Bits(\b0110011),
                 RegField(rd_num, 7),
                 Shl(Bits(funct3), 12),
                 RegField(rs1_num, 15),
                 RegField(rs2_num, 20),
                 Shl(Bits(funct7), 25) >>)

\* addi, slti, sltiu, xori, ori, andi (opcode 0010011) and jalr (1100111).
I_type(opc, rd, rs1, rs2, funct3) ==
    LET rd_num == get_register_number(rd)
        rs1_num == get_register_number(rs1)
        imm == convertToDecimal(rs2)
    IN  OrAll(<< Bits(opc),
                 RegField(rd_num, 7),
                 Shl(Bits(funct3), 12),
                 RegField(rs1_num, 15),
                 Shl(And(Bits(imm), Bits(\hFFF)), 20) >>)

\* slli, srli, srai: the I-type word with funct7 << 25 or-ed onto it.
I_shift(rd, rs1, rs2, funct3, funct7) ==
    LET rd_num == get_register_number(rd)
        rs1_num == get_register_number(rs1)
        imm == convertToDecimal(rs2)
    IN  OrAll(<< Bits(\b0010011),
                 RegField(rd_num, 7),
                 Shl(Bits(funct3), 12),
                 RegField(rs1_num, 15),
                 Shl(And(Bits(imm), Bits(\hFFF)), 20),
                 Shl(Bits(funct7), 25) >>)

\* beq, bne, blt, bge, bltu, bgeu (rs1 = first operand) and bgt, ble
\* (swap: rs2 = first operand).  sh12 is the shift the branch applies to
\* imm & 0x1000: 19 in blt, 20 in every other branch.
B_word(rs1_num, rs2_num, funct3, sh12, imm) ==
    OrAll(<< Bits(\b1100011),
             Shr(And(imm, Bits(\h800)), 4),
             Shl(And(imm, Bits(\h1E)), 7),
             Shl(Bits(funct3), 12),
             RegField(rs1_num, 15),
             RegField(rs2_num, 20),
             Shl(And(imm, Bits(\h7E0)), 20),
             Shl(And(imm, Bits(\h1000)), sh12) >>)

\* address = find_label_address(rs2); imm = address - instruction_count2;
\* imm = imm << 2; then the fields of B_word.
B_type(rd, rs1, rs2, funct3, swap, sh12, tab, instruction_count2) ==
    B_word(get_register_number(IF swap THEN rs1 ELSE rd),
           get_register_number(IF swap THEN rd ELSE rs1),
           funct3, sh12,
           Shl(Bits(find_label_address(tab, rs2) - instruction_count2), 2))

\* The memory operand imm(reg) held in rs1: temp gets the token and is cut at
\* its '('; rs1 is blanked up to its '(', re-scanned with %s (which leaves
\* rs1 as it is when nothing but blanks remains) and cut at its ')'.
Rescanned(blanked, again) == IF again.count = 1 THEN again.field[1] ELSE blanked

InPlaceScan(blanked) == Rescanned(blanked, sscanf(blanked, 1))

\* A faulty MemOperand without separate_rs1: the register is looked up from
\* the whole operand "imm(reg)" with its brackets removed.
MemOperand_unseparated(rs1) ==
    [imm |-> convertToDecimal(separateImmediate(sscanf(rs1, 1).field[1])),
     rs1_num |-> get_register_number(removeBracket(rs1))]

MemOperand(rs1) ==
    [imm |-> convertToDecimal(separateImmediate(sscanf(rs1, 1).field[1])),
     rs1_num |-> get_register_number(removeBracket(InPlaceScan(separate_rs1(rs1))))]

\* lb, lh, lw, lbu, lhu.
Load_word(rd_num, funct3, m) ==
    OrAll(<< Bits(\b0000011),
             RegField(rd_num, 7),
             Shl(Bits(funct3), 12),
             RegField(m.rs1_num, 15),
             Shl(And(Bits(m.imm), Bits(\hFFF)), 20) >>)

Load_type(rd, rs1, funct3) ==
    Load_word(get_register_number(rd), funct3, MemOperand(rs1))

\* A faulty S_word with the base register in the rs2 field and the stored
\* register in the rs1 field.
S_word_registers_swapped(rd_num, funct3, m) ==
    OrAll(<< Bits(\b0100011),
             Shl(And(Bits(m.imm), Bits(\h1F)), 7),
             Shl(Bits(funct3), 12),
             RegField(rd_num, 15),
             RegField(m.rs1_num, 20),
             Shl(And(Bits(m.imm), Bits(\hFE0)), 20) >>)

\* sb, sh, sw.
S_word(rd_num, funct3, m) ==
    OrAll(<< Bits(\b0100011),
             Shl(And(Bits(m.imm), Bits(\h1F)), 7),
             Shl(Bits(funct3), 12),
             RegField(m.rs1_num, 15),
             RegField(rd_num, 20),
             Shl(And(Bits(m.imm), Bits(\hFE0)), 20) >>)

S_type(rd, rs1, funct3) ==
    S_word(get_register_number(rd), funct3, MemOperand(rs1))

\* auipc (opcode 0010111), lui (0110111).
U_type(opc, rd, rs1) ==
    LET imm == convertToDecimal(rs1)
        rd_num == get_register_number(rd)
    IN  OrAll(<< Bits(opc),
                 RegField(rd_num, 7),
                 Shl(And(Bits(imm), Bits(\hFFFFF)), 12) >>)

\* A faulty J_word that shifts imm & 0x100000 by 12, one too many for the
\* pre-shifted imm, as the branches other than blt do with imm & 0x1000: the
\* sign of the offset leaves the word.
J_word_sign_lost(rd_num, imm) ==
    OrAll(<< Bits(\b1101111),
             RegField(rd_num, 7),
             And(imm, Bits(\hFF000)),
             Shl(And(imm, Bits(\h800)), 9),
             Shl(And(imm, Bits(\h7FE)), 20),
             Shl(And(imm, Bits(\h100000)), 12) >>)

\* jal rd, label.
J_word(rd_num, imm) ==
    OrAll(<< Bits(\b1101111),
             RegField(rd_num, 7),
             And(imm, Bits(\hFF000)),
             Shl(And(imm, Bits(\h800)), 9),
             Shl(And(imm, Bits(\h7FE)), 20),
             Shl(And(imm, Bits(\h100000)), 11) >>)

\* address = find_label_address(rs1); imm = address - instruction_count2;
\* imm = imm << 2; then the fields of J_word.
J_type(rd, rs1, tab, instruction_count2) ==
    J_word(get_register_number(rd),
           Shl(Bits(find_label_address(tab, rs1) - instruction_count2), 2))

\* A faulty li that adds the immediate to rd instead of x0.
li_pseudo_onto_rd(rd, rs1) ==
    OrAll(<< Bits(\b0010011),
             RegField(get_register_number(rd), 7),
             Shl(Bits(\b000), 12),
             RegField(get_register_number(rd), 15),
             Shl(And(Bits(convertToDecimal(rs1)), Bits(\hFFF)), 20) >>)

\* li rd, imm.
li_pseudo(rd, rs1) ==
    LET rd_num == get_register_number(rd)
        rs1_num == get_register_number(Txt.x0)
        imm == convertToDecimal(rs1)
    IN  OrAll(<< Bits(\b0010011),
                 RegField(rd_num, 7),
                 Shl(Bits(\b000), 12),
                 RegField(rs1_num, 15),
                 Shl(And(Bits(imm), Bits(\hFFF)), 20) >>)

\* A faulty mv that assembles "add rd, rs, x0": the R-type opcode.
mv_pseudo_as_add(rd, rs1) ==
    OrAll(<< Bits(\b0110011),
             RegField(get_register_number(rd), 7),
             Shl(Bits(\b000), 12),
             RegField(get_register_number(rs1), 15),
             RegField(get_register_number(Txt.x0), 20),
             Shl(Bits(\b0000000), 25) >>)

\* mv rd, rs.
mv_pseudo(rd, rs1) ==
    LET rd_num == get_register_number(rd)
        rs1_num == get_register_number(rs1)
        rs2_num == get_register_number(Txt.x0)
    IN  OrAll(<< Bits(\b0010011),
                 RegField(rd_num, 7),
                 Shl(Bits(\b000), 12),
                 RegField(rs1_num, 15),
                 RegField(rs2_num, 20),
                 Shl(Bits(\b0000000), 25) >>)

\* j label.
j_word(rd_num, imm) ==
    OrAll(<< Bits(\b1101111),
             RegField(rd_num, 7),
             And(imm, Bits(\hFF000)),
             Shl(And(imm, Bits(\h800)), 9),
             Shl(And(imm, Bits(\h7FE)), 20),
             Shl(And(imm, Bits(\h100000)), 11) >>)

j_pseudo(rd, tab, instruction_count2) ==
    j_word(get_register_number(Txt.x0),
           Shl(Bits(find_label_address(tab, rd) - instruction_count2), 2))

\* jr rs.
jr_pseudo(rd) ==
    LET rs1_num == get_register_number(rd)
        rd_num == get_register_number(Txt.x0)
        imm == 0
    IN  OrAll(<< Bits(\b1100111),
                 RegField(rd_num, 7),
                 Shl(Bits(\b000), 12),
                 RegField(rs1_num, 15),
                 Shl(And(Bits(imm), Bits(\hFFF)), 20) >>)

\* ret.
ret_pseudo ==
    LET rs1_num == get_register_number(Txt.ra)
        rd_num == get_register_number(Txt.x0)
        imm == 0
    IN  OrAll(<< Bits(\b1100111),
                 RegField(rd_num, 7),
                 Shl(Bits(\b000), 12),
                 RegField(rs1_num, 15),
                 Shl(And(Bits(imm), Bits(\hFFF)), 20) >>)

\* The if/else chain of assemble_instruction on the result s of its sscanf:
\* the returned machine_code and instruction_count2 as the call leaves it.
\* A line no branch matches returns 0 and leaves the counter alone.
Encode(s, tab, instruction_count2) ==
    LET count == s.count
        opcode == s.field[1]
        rd == s.field[2]
        rs1 == s.field[3]
        rs2 == s.field[4]
        ic2 == instruction_count2 + 1
        Emit(code) == [machine_code |-> code, instruction_count2 |-> ic2]
        None == [machine_code |-> Zero32, instruction_count2 |-> instruction_count2]
    IN  IF count = 4 THEN
            IF opcode = Txt.add THEN Emit(R_type(rd, rs1, rs2, \b000, \b0000000))
            ELSE IF opcode = Txt.sub THEN Emit(R_type(rd, rs1, rs2, \b000, \b0100000))
            ELSE IF opcode = Txt.or THEN Emit(R_type(rd, rs1, rs2, \b110, \b0000000))
            ELSE IF opcode = Txt.and THEN Emit(R_type(rd, rs1, rs2, \b111, \b0000000))
            ELSE IF opcode = Txt.xor THEN Emit(R_type(rd, rs1, rs2, \b100, \b0000000))
            ELSE IF opcode = Txt.sll THEN Emit(R_type(rd, rs1, rs2, \b001, \b0000000))
            ELSE IF opcode = Txt.srl THEN Emit(R_type(rd, rs1, rs2, \b101, \b0000000))
            ELSE IF opcode = Txt.sra THEN Emit(R_type(rd, rs1, rs2, \b101, \b0100000))
            ELSE IF opcode = Txt.slt THEN Emit(R_type(rd, rs1, rs2, \b010, \b0000000))
            ELSE IF opcode = Txt.sltu THEN Emit(R_type(rd, rs1, rs2, \b011, \b0000000))
            ELSE IF opcode = Txt.addi THEN Emit(I_type(\b0010011, rd, rs1, rs2, \b000))
            ELSE IF opcode = Txt.slli THEN Emit(I_shift(rd, rs1, rs2, \b001, \b0000000))
            ELSE IF opcode = Txt.slti THEN Emit(I_type(\b0010011, rd, rs1, rs2, \b010))
            ELSE IF opcode = Txt.sltiu THEN Emit(I_type(\b0010011, rd, rs1, rs2, \b011))
            ELSE IF opcode = Txt.xori THEN Emit(I_type(\b0010011, rd, rs1, rs2, \b100))
            ELSE IF opcode = Txt.srli THEN Emit(I_shift(rd, rs1, rs2, \b101, \b0000000))
            ELSE IF opcode = Txt.srai THEN Emit(I_shift(rd, rs1, rs2, \b101, \b0100000))
            ELSE IF opcode = Txt.ori THEN Emit(I_type(\b0010011, rd, rs1, rs2, \b110))
            ELSE IF opcode = Txt.andi THEN Emit(I_type(\b0010011, rd, rs1, rs2, \b111))
            ELSE IF opcode = Txt.jalr THEN Emit(I_type(\b1100111, rd, rs1, rs2, \b000))
            ELSE IF opcode = Txt.beq
                 THEN Emit(B_type(rd, rs1, rs2, \b000, FALSE, 20, tab, ic2))
            ELSE IF opcode = Txt.bne
                 THEN Emit(B_type(rd, rs1, rs2, \b001, FALSE, 20, tab, ic2))
            ELSE IF opcode = Txt.blt
                 THEN Emit(B_type(rd, rs1, rs2, \b100, FALSE, 19, tab, ic2))
            ELSE IF opcode = Txt.bgt
                 THEN Emit(B_type(rd, rs1, rs2, \b100, TRUE, 20, tab, ic2))
            ELSE IF opcode = Txt.bge
                 THEN Emit(B_type(rd, rs1, rs2, \b101, FALSE, 20, tab, ic2))
            ELSE IF opcode = Txt.ble
                 THEN Emit(B_type(rd, rs1, rs2, \b101, TRUE, 20, tab, ic2))
            ELSE IF opcode = Txt.bltu
                 THEN Emit(B_type(rd, rs1, rs2, \b110, FALSE, 20, tab, ic2))
            ELSE IF opcode = Txt.bgeu
                 THEN Emit(B_type(rd, rs1, rs2, \b111, FALSE, 20, tab, ic2))
            ELSE None
        ELSE IF count = 3 THEN
            IF opcode = Txt.lb THEN Emit(Load_type(rd, rs1, \b000))
            ELSE IF opcode = Txt.lh THEN Emit(Load_type(rd, rs1, \b001))
            ELSE IF opcode = Txt.lw THEN Emit(Load_type(rd, rs1, \b010))
            ELSE IF opcode = Txt.lbu THEN Emit(Load_type(rd, rs1, \b100))
            ELSE IF opcode = Txt.lhu THEN Emit(Load_type(rd, rs1, \b101))
            ELSE IF opcode = Txt.sb THEN Emit(S_type(rd, rs1, \b000))
            ELSE IF opcode = Txt.sh THEN Emit(S_type(rd, rs1, \b001))
            ELSE IF opcode = Txt.sw THEN Emit(S_type(rd, rs1, \b010))
            ELSE IF opcode = Txt.auipc THEN Emit(U_type(\b0010111, rd, rs1))
            ELSE IF opcode = Txt.lui THEN Emit(U_type(\b0110111, rd, rs1))
            ELSE IF opcode = Txt.jal THEN Emit(J_type(rd, rs1, tab, ic2))
            ELSE IF opcode = Txt.li THEN Emit(li_pseudo(rd, rs1))
            ELSE IF opcode = Txt.mv THEN Emit(mv_pseudo(rd, rs1))
            ELSE None
        ELSE IF count = 2 THEN
            IF opcode = Txt.j THEN Emit(j_pseudo(rd, tab, ic2))
            ELSE IF opcode = Txt.jr THEN Emit(jr_pseudo(rd))
            ELSE None
        ELSE IF count = 1 THEN
            IF opcode = Txt.ret THEN Emit(ret_pseudo)
            ELSE None
        ELSE None

\* assemble_instruction(instruction) on the globals tab = [labelTable,
\* labelCount] and instruction_count2.
assemble_instruction(instruction, tab, instruction_count2) ==
    Encode(sscanf(Body(instruction, splitString(instruction)), 4),
           tab, instruction_count2)

\* output_hex: "0x", eight upper-case hex digits (most significant first), "\n".
output_hex(code) ==
    << "0", "x" >>
    \o [n \in 1..8 |->
          UpperHexDigits[1 + code[35 - 4 * n] * 8 + code[34 - 4 * n] * 4
                           + code[33 - 4 * n] * 2 + code[32 - 4 * n]]]
    \o << "\n" >>

\* output_binary: bits 31 down to 0 as '0'/'1', then "\n".
output_binary(code) ==
    [n \in 1..32 |-> IF code[32 - n] = 1 THEN "1" ELSE "0"] \o << "\n" >>

\* ------------------------------------------------------------------------
\* Input text
\* ------------------------------------------------------------------------

\* The longest input file, in lines.
MaxLines == 3

SP == << " " >>
CS == << ",", " " >>
NL == << "\n" >>

\* Label names and the other words of the input lines.
Word ==
    [ loop |-> <<"l", "o", "o", "p">>,
      end |-> <<"e", "n", "d">>,
      nop |-> <<"n", "o", "p">>,
      colon |-> <<":">>,
      load |-> <<"#", " ", "l", "o", "a", "d">>,
      note |-> <<"#", " ", "n", "o", "t", "e">>,
      mem8x2 |-> <<"8", "(", "x", "2", ")">>,
      one |-> <<"1">> ]

\* The lines an input file is made of, each with whether it holds a
\* recognised instruction: a supported mnemonic with its operand count.
\*   add x1, x2, x3
L_add == [text |-> Txt.add \o SP \o Txt.x1 \o CS \o Txt.x2 \o CS \o Txt.x3 \o NL,
          recognised |-> TRUE]
\*   loop: addi x1, x1, 1
L_loop == [text |-> Word.loop \o Word.colon \o SP \o Txt.addi \o SP \o Txt.x1
                      \o CS \o Txt.x1 \o CS \o Word.one \o NL,
           recognised |-> TRUE]
\*   bne x1, x2, loop
L_bne == [text |-> Txt.bne \o SP \o Txt.x1 \o CS \o Txt.x2 \o CS \o Word.loop \o NL,
          recognised |-> TRUE]
\*   lw x1, 8(x2) # load
L_lw == [text |-> Txt.lw \o SP \o Txt.x1 \o CS \o Word.mem8x2 \o SP \o Word.load \o NL,
         recognised |-> TRUE]
\*   j end
L_j == [text |-> Txt.j \o SP \o Word.end \o NL, recognised |-> TRUE]
\*   ret
L_ret == [text |-> Txt.ret \o NL, recognised |-> TRUE]
\*   end:
L_end == [text |-> Word.end \o Word.colon \o NL, recognised |-> FALSE]
\*   # note
L_note == [text |-> Word.note \o NL, recognised |-> FALSE]
\*   nop
L_nop == [text |-> Word.nop \o NL, recognised |-> FALSE]
\*   add x1, x2
L_short == [text |-> Txt.add \o SP \o Txt.x1 \o CS \o Txt.x2 \o NL,
            recognised |-> FALSE]

\*   (a blank line)
L_blank == [text |-> NL, recognised |-> FALSE]

Pool == { L_add, L_loop, L_bne, L_lw, L_j, L_ret, L_end, L_note, L_nop, L_short,
          L_blank }

\* Whether a line of the pool holds a recognised instruction.
Recognised(text) == \E l \in Pool : l.text = text /\ l.recognised

\* The input files: every sequence of at most MaxLines lines of the pool.
Files == UNION { [1..n -> { l.text : l \in Pool }] : n \in 0..MaxLines }

\* The command lines: argc and argv[3] (absent when argc < 4).
Flag == [h |-> <<"-", "h">>, b |-> <<"-", "b">>, x |-> <<"-", "x">>]

CommandLines ==
    { [argc |-> 3, flag |-> << >>] }
    \cup { [argc |-> 4, flag |-> f] : f \in { Flag.h, Flag.b, Flag.x } }
    \cup { [argc |-> 5, flag |-> Flag.h] }

\* ------------------------------------------------------------------------
\* State
\* ------------------------------------------------------------------------

VARIABLES
    pc,                 \* where main (or the caller of the two passes) stands
    argc, flag,         \* argc and argv[3]
    input_file,         \* the lines of the input file
    output_file,        \* the lines written to the output file
    input_open,         \* main holds an open handle on the input file
    output_open,        \* main holds an open handle on the output file
    pos,                \* the lines fgets has read since the input was opened
    line,               \* the buffer line[] as the last call left it
    labelTable,         \* Label labelTable[MAX_INSTRUCTIONS]
    labelCount,
    instruction_count,
    instruction_count2,
    machine_code,       \* the word the last assemble_instruction returned
    exit_code,          \* main's return value, -1 while it runs
    operands            \* the instruction under test (EncSpec only)

vars == << pc, argc, flag, input_file, output_file, input_open, output_open, pos,
           line, labelTable, labelCount, instruction_count, instruction_count2,
           machine_code, exit_code, operands >>

globals == << labelTable, labelCount, instruction_count, instruction_count2,
              machine_code, line >>
files == << input_open, output_open, output_file, pos >>
inputs == << argc, flag, input_file, operands >>

\* ------------------------------------------------------------------------
\* assembler_main.c: main
\* ------------------------------------------------------------------------

\* The globals and main's locals before main runs.
Init ==
    /\ pc = "main"
    /\ \E c \in CommandLines : argc = c.argc /\ flag = c.flag
    /\ input_file \in Files
    /\ output_file = << >>
    /\ input_open = FALSE
    /\ output_open = FALSE
    /\ pos = 0
    /\ line = << >>
    /\ labelTable = << >>
    /\ labelCount = 0
    /\ instruction_count = 0
    /\ instruction_count2 = 0
    /\ machine_code = Zero32
    /\ exit_code = -1
    /\ operands = [kind |-> "file"]

\* return n;
Return(n) == pc' = "returned" /\ exit_code' = n

\* if (argc < 4) return 1;
CheckArgc ==
    /\ pc = "main"
    /\ IF argc < 4 THEN Return(1) ELSE pc' = "fopen_input" /\ UNCHANGED exit_code
    /\ UNCHANGED << globals, files, inputs >>

\* input_file = fopen(argv[1], "r"), which may fail: return 1.
OpenInput ==
    /\ pc = "fopen_input"
    /\ \E ok \in BOOLEAN :
         IF ok THEN /\ input_open' = TRUE
                    /\ pos' = 0
                    /\ pc' = "fopen_output"
                    /\ UNCHANGED exit_code
               ELSE /\ Return(1)
                    /\ UNCHANGED << input_open, pos >>
    /\ UNCHANGED << globals, inputs, output_open, output_file >>

\* output_file = fopen(argv[2], "w"), which truncates the file and may fail:
\* fclose(input_file); return 1.
OpenOutput ==
    /\ pc = "fopen_output"
    /\ \E ok \in BOOLEAN :
         IF ok THEN /\ output_open' = TRUE
                    /\ output_file' = << >>
                    /\ pc' = "check_flag"
                    /\ UNCHANGED << exit_code, input_open >>
               ELSE /\ input_open' = FALSE
                    /\ Return(1)
                    /\ UNCHANGED << output_open, output_file >>
    /\ UNCHANGED << globals, inputs, pos >>

isHex == flag = Flag.h
isBin == flag = Flag.b

\* if (!isHex & !isBin) return 1;
CheckFlag ==
    /\ pc = "check_flag"
    /\ IF ~isHex /\ ~isBin THEN Return(1) ELSE pc' = "pass1" /\ UNCHANGED exit_code
    /\ UNCHANGED << globals, files, inputs >>

\* The globals and the buffer line[] as first_pass leaves them.
FirstPassDone(r) ==
    /\ labelTable' = r.tab.labelTable
    /\ labelCount' = r.tab.labelCount
    /\ instruction_count' = r.instruction_count
    /\ line' = r.instruction

\* What the uninitialised array label2 may hold when first_pass reads it: it
\* is read only when the text before the ':' holds no token.
Uninitialised(l2) == IF l2.count # 1 THEN { << >>, Word.loop } ELSE { << >> }

\* add_label is about to write labelTable[labelCount] with labelCount at
\* MAX_INSTRUCTIONS or beyond, outside the array: the memory behind it takes
\* the entry, or the write (or the one that follows a labelCount overwritten
\* by the label's name) hits an unmapped or guarded address and the process
\* is killed.
Overflows(sp, count) == sp.after # << >> /\ count >= MAX_INSTRUCTIONS

\* first_pass(line) on the globals, for each content of label2 and each
\* outcome of an overrun; main goes on at next when the call returns.
FirstPassCall(text, next) ==
    \E uninit \in Uninitialised(sscanf(remove_colon(splitString(text).before), 1)),
       s \in AfterSplit(sscanf(Body(text, splitString(text)), 4), text),
       killed \in MayKill(text) \cup { Overflows(splitString(text), labelCount) } :
        IF killed
        THEN /\ pc' = "killed"
             /\ UNCHANGED << labelTable, labelCount, instruction_count, line >>
        ELSE /\ pc' = next
             /\ FirstPassDone(FirstPassOn(s, text, splitString(text),
                                          [labelTable |-> labelTable,
                                           labelCount |-> labelCount],
                                          instruction_count, uninit))

\* One turn of the first loop: fgets, removeComment, replaceCommas, first_pass.
FirstPassLine ==
    /\ pc = "pass1"
    /\ pos < Len(input_file)
    /\ FirstPassCall(replaceCommas(removeComment(input_file[pos + 1])), "pass1")
    /\ pos' = pos + 1
    /\ UNCHANGED << exit_code, inputs, input_open, output_open, output_file,
                    instruction_count2, machine_code >>

\* fgets returns NULL: fclose(input_file); fclose(output_file);
FirstPassEnd ==
    /\ pc = "pass1"
    /\ pos = Len(input_file)
    /\ input_open' = FALSE
    /\ output_open' = FALSE
    /\ pc' = "reopen_input"
    /\ UNCHANGED << globals, inputs, exit_code, output_file, pos >>

\* input_file = fopen(argv[1], "r") again, which may fail: return 1.
ReopenInput ==
    /\ pc = "reopen_input"
    /\ \E ok \in BOOLEAN :
         IF ok THEN /\ input_open' = TRUE
                    /\ pos' = 0
                    /\ pc' = "reopen_output"
                    /\ UNCHANGED exit_code
               ELSE /\ Return(1)
                    /\ UNCHANGED << input_open, pos >>
    /\ UNCHANGED << globals, inputs, output_open, output_file >>

\* output_file = fopen(argv[2], "w") again, which may fail:
\* fclose(input_file); return 1.
ReopenOutput ==
    /\ pc = "reopen_output"
    /\ \E ok \in BOOLEAN :
         IF ok THEN /\ output_open' = TRUE
                    /\ output_file' = << >>
                    /\ pc' = "pass2"
                    /\ UNCHANGED << exit_code, input_open >>
               ELSE /\ input_open' = FALSE
                    /\ Return(1)
                    /\ UNCHANGED << output_open, output_file >>
    /\ UNCHANGED << globals, inputs, pos >>


\* A faulty output guard that writes the word whatever its value.
Written_unguarded(code) ==
    IF isHex THEN Append(output_file, output_hex(code))
    ELSE Append(output_file, output_binary(code))

\* One turn of the second loop: fgets, removeComment, replaceCommas,
\* assemble_instruction, then output_hex if (isHex & machine_code), else
\* output_binary if (isBin & machine_code): & is bitwise, so the test is bit 0
\* of machine_code.
Written(code) ==
    IF isHex /\ code[0] = 1 THEN Append(output_file, output_hex(code))
    ELSE IF isBin /\ code[0] = 1 THEN Append(output_file, output_binary(code))
    ELSE output_file

\* The globals and the output file after machine_code = assemble_instruction(line).
SecondPassDone(r) ==
    /\ machine_code' = r.machine_code
    /\ instruction_count2' = r.instruction_count2
    /\ output_file' = Written(r.machine_code)

\* assemble_instruction(line) on the globals and the output of its word, for
\* each outcome of an overrun; main goes on at next when the call returns.
SecondPassCall(text, next) ==
    \E s \in AfterSplit(sscanf(Body(text, splitString(text)), 4), text),
       killed \in MayKill(text) :
        IF killed
        THEN /\ pc' = "killed"
             /\ UNCHANGED << machine_code, instruction_count2, output_file, line >>
        ELSE /\ pc' = next
             /\ SecondPassDone(Encode(s, [labelTable |-> labelTable,
                                          labelCount |-> labelCount],
                                      instruction_count2))
             /\ line' = Body(text, splitString(text))

\* A faulty second loop whose assemble_instruction counts an emitted
\* instruction in instruction_count, the counter of pass one, as well.
SecondPassLine_counting_in_pass_one ==
    /\ pc = "pass2"
    /\ pos < Len(input_file)
    /\ SecondPassCall(replaceCommas(removeComment(input_file[pos + 1])), "pass2")
    /\ pos' = pos + 1
    /\ instruction_count' = instruction_count + 1
    /\ UNCHANGED << exit_code, inputs, input_open, output_open, labelTable, labelCount >>

SecondPassLine ==
    /\ pc = "pass2"
    /\ pos < Len(input_file)
    /\ SecondPassCall(replaceCommas(removeComment(input_file[pos + 1])), "pass2")
    /\ pos' = pos + 1
    /\ UNCHANGED << exit_code, inputs, input_open, output_open,
                    labelTable, labelCount, instruction_count >>

\* fgets returns NULL: fclose(input_file); fclose(output_file); return 0;
SecondPassEnd ==
    /\ pc = "pass2"
    /\ pos = Len(input_file)
    /\ input_open' = FALSE
    /\ output_open' = FALSE
    /\ Return(0)
    /\ UNCHANGED << globals, inputs, output_file, pos >>

Next ==
    \/ CheckArgc
    \/ OpenInput
    \/ OpenOutput
    \/ CheckFlag
    \/ FirstPassLine
    \/ FirstPassEnd
    \/ ReopenInput
    \/ ReopenOutput
    \/ SecondPassLine
    \/ SecondPassEnd

Spec == Init /\ [][Next]_vars

\* ------------------------------------------------------------------------
\* One instruction at a time: the line of a label bound to emitted index k
\* goes through first_pass, then an instruction at emitted index j goes
\* through assemble_instruction, as in a file whose k-th instruction carries
\* the label and whose j-th instruction is the one under test.
\* ------------------------------------------------------------------------

\* Label indices and instruction indices range over 1 and 2^i + 1.
MaxIndexLog == 18

Index == {1} \cup { 2^i + 1 : i \in 0..MaxIndexLog }

\* The digits of a natural number n, as assembly source writes them.
RECURSIVE Numeral(_, _, _)
Numeral(n, base, digits) ==
    IF n < base THEN << digits[n + 1] >>
    ELSE Numeral(n \div base, base, digits) \o << digits[(n % base) + 1] >>

\* An immediate operand: its value and the literal that denotes it.
DecLit(v) ==
    [value |-> v,
     literal |-> IF v < 0 THEN <<"-">> \o Numeral(-v, 10, HexDigits)
                 ELSE Numeral(v, 10, HexDigits)]

HexLit(v, digits) == [value |-> v, literal |-> <<"0", "x">> \o Numeral(v, 16, digits)]

Literals(values) ==
    { DecLit(v) : v \in values }
    \cup { HexLit(v, d) : v \in { w \in values : w >= 0 },
                          d \in { HexDigits, UpperHexDigits } }

NoImm == [value |-> 0, literal |-> << >>]

\* 12-bit immediates: 0, the powers of two of either sign, and mixed patterns.
Imms ==
    Literals({0} \cup { 2^i : i \in 0..10 } \cup { -(2^i) : i \in 0..11 }
             \cup { 2047, 1656, 1365, 42, -683, -1366, -2047 })

FewImms == { DecLit(-1), DecLit(42), HexLit(1656, HexDigits) }

\* Shift amounts, in and out of 0..31.
ShiftImms ==
    Literals(0..34 \cup { 63, 64, 1024, 2047 })

\* 20-bit immediates.
UImms ==
    Literals({0} \cup { 2^i : i \in 0..19 } \cup { 74565, 703710, 524289, 1048575 })

FewUImms == { HexLit(74565, HexDigits), DecLit(1048575), DecLit(1) }

\* A register operand: its index and the name that denotes it.
Reg(n) == [num |-> n, name |-> <<"x">> \o Numeral(n, 10, HexDigits)]

Abi ==
    [ zero |-> [num |-> 0, name |-> Txt.zero],
      ra |-> [num |-> 1, name |-> Txt.ra],
      t0 |-> [num |-> 5, name |-> Txt.t0],
      a0 |-> [num |-> 10, name |-> Txt.a0] ]

NoReg == [num |-> 0, name |-> << >>]

\* The ABI name of register n is AbiName[n + 1].
AbiName ==
    << Txt.zero, Txt.ra, Txt.sp, Txt.gp, Txt.tp, Txt.t0, Txt.t1, Txt.t2,
       Txt.s0, Txt.s1, Txt.a0, Txt.a1, Txt.a2, Txt.a3, Txt.a4, Txt.a5,
       Txt.a6, Txt.a7, Txt.s2, Txt.s3, Txt.s4, Txt.s5, Txt.s6, Txt.s7,
       Txt.s8, Txt.s9, Txt.s10, Txt.s11, Txt.t3, Txt.t4, Txt.t5, Txt.t6 >>

AbiReg(n) == [num |-> n, name |-> AbiName[n + 1]]

AllRegs == { Reg(n) : n \in 0..31 } \cup { AbiReg(n) : n \in 0..31 }

FewRegs == { Reg(0), Reg(1), Reg(31), Abi.t0 }

RegPairs ==
    (FewRegs \X FewRegs)
    \cup { << r, Reg(2) >> : r \in AllRegs }
    \cup { << Reg(1), r >> : r \in AllRegs }
    \cup { << Abi.a0, Abi.zero >>, << Reg(5), Reg(5) >>, << Reg(3), Reg(2) >> }

FewPairs == { << Reg(1), Reg(2) >>, << Abi.a0, Abi.zero >>, << Reg(5), Reg(5) >> }

RegTriples ==
    (FewRegs \X FewRegs \X FewRegs)
    \cup { << r, Reg(2), Reg(3) >> : r \in AllRegs }
    \cup { << Reg(1), r, Reg(3) >> : r \in AllRegs }
    \cup { << Reg(1), Reg(2), r >> : r \in AllRegs }

\* (k, j): the label's index and the instruction's index.
IndexPairs == Index \X Index

FewIndexPairs == { << 1, 2 >>, << 2, 1 >>, << 1, 1 >> }

\* The source lines.
Line3(opcode, a, b, c) == opcode \o SP \o a \o CS \o b \o CS \o c \o NL
Line2(opcode, a, b) == opcode \o SP \o a \o CS \o b \o NL
Line1(opcode, a) == opcode \o SP \o a \o NL
Line0(opcode) == opcode \o NL
MemLine(opcode, a, imm, b) == opcode \o SP \o a \o CS \o imm \o <<"(">> \o b \o <<")">> \o NL
LabelLine == Word.loop \o Word.colon \o NL

\* An instruction under test: its operands as the source line states them,
\* the label's index k, its own index j, and its line.
Vector(kind, opcode, rd, rs1, rs2, imm, kj, text) ==
    [kind |-> kind, opcode |-> opcode, rd |-> rd, rs1 |-> rs1, rs2 |-> rs2,
     imm |-> imm, k |-> kj[1], j |-> kj[2], text |-> text]

R_opcodes == { Txt.add, Txt.sub, Txt.or, Txt.and, Txt.xor, Txt.sll, Txt.srl, Txt.sra,
               Txt.slt, Txt.sltu }
I_opcodes == { Txt.addi, Txt.slti, Txt.sltiu, Txt.xori, Txt.ori, Txt.andi, Txt.jalr }
Shift_opcodes == { Txt.slli, Txt.srli, Txt.srai }
Load_opcodes == { Txt.lb, Txt.lh, Txt.lw, Txt.lbu, Txt.lhu }
Store_opcodes == { Txt.sb, Txt.sh, Txt.sw }
U_opcodes == { Txt.lui, Txt.auipc }
B_opcodes == { Txt.beq, Txt.bne, Txt.blt, Txt.bgt, Txt.bge, Txt.ble, Txt.bltu, Txt.bgeu }

\* mnemonic rd, rs1, rs2
R_vectors ==
    { Vector("R", o, t[1], t[2], t[3], NoImm, << 1, 1 >>,
             Line3(o, t[1].name, t[2].name, t[3].name)) :
        o \in R_opcodes, t \in RegTriples }

\* mnemonic rd, rs1, imm
RegImm_vectors(kind, opcodes, few, all) ==
    { Vector(kind, o, c[1][1], c[1][2], NoReg, c[2], << 1, 1 >>,
             Line3(o, c[1][1].name, c[1][2].name, c[2].literal)) :
        o \in opcodes, c \in (RegPairs \X few) \cup (FewPairs \X all) }

\* mnemonic reg1, imm(reg2)
Mem_vectors(kind, opcodes) ==
    { Vector(kind, o, c[1][1], c[1][2], NoReg, c[2], << 1, 1 >>,
             MemLine(o, c[1][1].name, c[2].literal, c[1][2].name)) :
        o \in opcodes, c \in (RegPairs \X FewImms) \cup (FewPairs \X Imms) }

\* mnemonic rd, imm
RdImm_vectors(kind, opcodes, few, all) ==
    { Vector(kind, o, c[1], NoReg, NoReg, c[2], << 1, 1 >>,
             Line2(o, c[1].name, c[2].literal)) :
        o \in opcodes, c \in (AllRegs \X few) \cup (FewRegs \X all) }

\* mnemonic rs1, rs2, label
B_vectors ==
    { Vector("B", o, NoReg, c[1][1], c[1][2], NoImm, c[2],
             Line3(o, c[1][1].name, c[1][2].name, Word.loop)) :
        o \in B_opcodes,
        c \in (RegPairs \X FewIndexPairs)
              \cup ({ << Reg(1), Reg(2) >>, << Reg(2), Reg(1) >> } \X IndexPairs) }

\* jal rd, label
J_vectors ==
    { Vector("J", Txt.jal, c[1], NoReg, NoReg, NoImm, c[2],
             Line2(Txt.jal, c[1].name, Word.loop)) :
        c \in (AllRegs \X FewIndexPairs) \cup (FewRegs \X IndexPairs) }

\* j label
j_vectors ==
    { Vector("j", Txt.j, NoReg, NoReg, NoReg, NoImm, kj, Line1(Txt.j, Word.loop)) :
        kj \in IndexPairs }

\* jr rs
jr_vectors ==
    { Vector("jr", Txt.jr, NoReg, r, NoReg, NoImm, << 1, 1 >>, Line1(Txt.jr, r.name)) :
        r \in AllRegs }

\* ret
ret_vectors ==
    { Vector("ret", Txt.ret, NoReg, NoReg, NoReg, NoImm, << 1, 1 >>, Line0(Txt.ret)) }

\* mv rd, rs
mv_vectors ==
    { Vector("mv", Txt.mv, p[1], p[2], NoReg, NoImm, << 1, 1 >>,
             Line2(Txt.mv, p[1].name, p[2].name)) :
        p \in RegPairs }

\* Operands that name no register: num is -1.
BadRegs ==
    { [num |-> -1, name |-> n] :
        n \in { <<"f", "o", "o">>, <<"x", "y", "z">>, <<"x">>, <<"x", "3", "2">>,
                <<"x", "0", "5">>, <<"x", "1", "a">>, <<"X", "1">>, <<"f", "p">>,
                <<"x", "-", "1">>, <<"a", "8">> } }

\* add, sw, beq, jalr and mv with such an operand in one register position.
BadReg_vectors ==
    { Vector("bad_register", Txt.add, t[1], t[2], t[3], NoImm, << 1, 1 >>,
             Line3(Txt.add, t[1].name, t[2].name, t[3].name)) :
        t \in { << b, Reg(2), Reg(3) >> : b \in BadRegs }
              \cup { << Reg(1), b, Reg(3) >> : b \in BadRegs }
              \cup { << Reg(1), Reg(2), b >> : b \in BadRegs } }
    \cup { Vector("bad_register", Txt.sw, p[1], p[2], NoReg, DecLit(8), << 1, 1 >>,
                  MemLine(Txt.sw, p[1].name, DecLit(8).literal, p[2].name)) :
             p \in { << b, Reg(2) >> : b \in BadRegs }
                   \cup { << Reg(1), b >> : b \in BadRegs } }
    \cup { Vector("bad_register", Txt.beq, NoReg, b, Reg(2), NoImm, << 1, 1 >>,
                  Line3(Txt.beq, b.name, Txt.x2, Word.loop)) : b \in BadRegs }
    \cup { Vector("bad_register", Txt.jalr, Reg(1), b, NoReg, DecLit(0), << 1, 1 >>,
                  Line3(Txt.jalr, Txt.x1, b.name, DecLit(0).literal)) : b \in BadRegs }
    \cup { Vector("bad_register", Txt.mv, b, Reg(2), NoReg, NoImm, << 1, 1 >>,
                  Line2(Txt.mv, b.name, Txt.x2)) : b \in BadRegs }

\* Branches, jal and j to the label "end", which no line defines.
Unresolved_vectors ==
    { Vector("unresolved", o, NoReg, Reg(1), Reg(2), NoImm, kj,
             Line3(o, Txt.x1, Txt.x2, Word.end)) :
        o \in B_opcodes, kj \in FewIndexPairs }
    \cup { Vector("unresolved", Txt.jal, Abi.ra, NoReg, NoReg, NoImm, kj,
                  Line2(Txt.jal, Txt.ra, Word.end)) : kj \in FewIndexPairs }
    \cup { Vector("unresolved", Txt.j, NoReg, NoReg, NoReg, NoImm, kj,
                  Line1(Txt.j, Word.end)) : kj \in FewIndexPairs }

\* Immediates outside -2048..2047 and outside 0..2^20-1.
WideImms == Literals({ 2048, 2049, 4095, 4096, 70000, -2049, -4096, -70000 })

WideUImms == Literals({ 1048576, 1048577, 2097151, -1, -1048576 })

\* I-type, load, store and U-type instructions with such an immediate.
OutOfRange_vectors ==
    { Vector("out_of_range", o, Reg(1), Reg(2), NoReg, i, << 1, 1 >>,
             Line3(o, Txt.x1, Txt.x2, i.literal)) :
        o \in I_opcodes, i \in WideImms }
    \cup { Vector("out_of_range", o, Reg(1), Reg(2), NoReg, i, << 1, 1 >>,
                  MemLine(o, Txt.x1, i.literal, Txt.x2)) :
             o \in Load_opcodes \cup Store_opcodes, i \in WideImms }
    \cup { Vector("out_of_range", o, Reg(1), NoReg, NoReg, i, << 1, 1 >>,
                  Line2(o, Txt.x1, i.literal)) :
             o \in U_opcodes, i \in WideUImms }

Plain_vectors ==
    R_vectors
    \cup RegImm_vectors("I", I_opcodes, FewImms, Imms)
    \cup RegImm_vectors("shift", Shift_opcodes, { DecLit(1), DecLit(31) }, ShiftImms)
    \cup Mem_vectors("load", Load_opcodes)
    \cup Mem_vectors("store", Store_opcodes)
    \cup RdImm_vectors("U", U_opcodes, FewUImms, UImms)
    \cup RdImm_vectors("li", { Txt.li }, FewImms, Imms)
    \cup B_vectors \cup J_vectors \cup j_vectors \cup jr_vectors \cup ret_vectors
    \cup mv_vectors
    \cup BadReg_vectors
    \cup Unresolved_vectors
    \cup OutOfRange_vectors

\* A few instructions of every format.
Sample_vectors ==
    { u \in Plain_vectors :
        /\ u.rd \in { Reg(1), NoReg }
        /\ u.rs1 \in { Reg(2), Abi.t0, NoReg }
        /\ u.rs2 \in { Reg(3), Reg(31), NoReg }
        /\ u.imm \in { NoImm, DecLit(42), DecLit(-1), DecLit(1) }
        /\ << u.k, u.j >> \in FewIndexPairs }

\* A line with a comment appended: "# note" before its newline.
Commented(text) == SubSeq(text, 1, Len(text) - 1) \o Word.note \o NL

\* Instructions of every format whose line, or whose label's line, carries a
\* comment: "comment" on the instruction's line, "comment_on_label" on the
\* line "loop:", "comment_on_labelled" on the line "loop: addi x1, x1, 1".
\* text is the instruction's line without the comment.
Comment_vectors ==
    { [v EXCEPT !.kind = "comment"] : v \in Sample_vectors }
    \cup { [v EXCEPT !.kind = c] :
             c \in { "comment_on_label", "comment_on_labelled" },
             v \in { u \in B_vectors \cup J_vectors \cup j_vectors :
                       /\ u.rd \in { Reg(1), NoReg }
                       /\ u.rs1 \in { Reg(1), NoReg }
                       /\ u.rs2 \in { Reg(2), NoReg }
                       /\ << u.k, u.j >> \in FewIndexPairs } }

\* The line with every run of spaces and commas, from index i on, replaced
\* by the separator sep.
RECURSIVE Respaced(_, _, _)
Respaced(text, i, sep) ==
    IF i > Len(text) THEN << >>
    ELSE IF text[i] \notin { " ", "," } THEN << text[i] >> \o Respaced(text, i + 1, sep)
    ELSE IF i > 1 /\ text[i - 1] \in { " ", "," } THEN Respaced(text, i + 1, sep)
    ELSE sep \o Respaced(text, i + 1, sep)

\* n times the two characters " ,".
RECURSIVE Wide(_)
Wide(n) == IF n = 0 THEN << >> ELSE << " ", "," >> \o Wide(n - 1)

\* The separator a vector's kind stands for.  The wide one makes the line of
\* an instruction of four, three or two tokens 30 to 49 characters long,
\* except a load or a store: its line stays shorter, so that its memory
\* operand always holds a token for sscanf to store in temp[].
SeparatorKinds ==
    { "separators_commas", "separators_spaces", "separators_mixed", "separators_wide" }

SeparatorOf(v) ==
    CASE v.kind = "separators_commas" -> << "," >>
      [] v.kind = "separators_spaces" -> << " ", " ", " " >>
      [] v.kind = "separators_mixed" -> << ",", " ", " ", ",", " " >>
      [] v.kind = "separators_wide" ->
            Wide(CASE v.opcode \in Load_opcodes \cup Store_opcodes -> 4
                   [] sscanf(replaceCommas(v.text), 4).count = 4 -> 4
                   [] sscanf(replaceCommas(v.text), 4).count = 3 -> 8
                   [] OTHER -> 14)

\* The same instructions with other separators between their tokens; text is
\* the line as Line0..Line3 and MemLine write it.
Separator_vectors ==
    { [v EXCEPT !.kind = c] : c \in SeparatorKinds, v \in Sample_vectors }


\* Lines that hold no recognised instruction: a blank line, a comment, an
\* unknown mnemonic, and known mnemonics with another number of operands.
Other_vectors ==
    { Vector("other", << >>, NoReg, NoReg, NoReg, NoImm, << 1, 1 >>, t) :
        t \in { L_blank.text, L_note.text, L_nop.text, L_short.text,
                Line1(Txt.ret, Txt.x1) } }

Vectors == Plain_vectors \cup Comment_vectors \cup Separator_vectors \cup Other_vectors

\* The two lines of the input file: the label's line and the instruction's.
PlainLabelLineOf(v) ==
    IF v.kind = "comment_on_labelled" THEN L_loop.text ELSE LabelLine

InstructionLineOf(v) ==
    IF v.kind = "comment" THEN Commented(v.text)
    ELSE IF v.kind \in SeparatorKinds THEN Respaced(v.text, 1, SeparatorOf(v))
    ELSE v.text

\* An instruction with other separators stands on both lines, so that pass
\* one counts it as well.
LabelLineOf(v) ==
    IF v.kind \in { "comment_on_label", "comment_on_labelled" }
    THEN Commented(PlainLabelLineOf(v))
    ELSE IF v.kind \in SeparatorKinds THEN InstructionLineOf(v)
    ELSE LabelLine

\* Pass one has counted k - 1 instructions and found no label yet; pass two
\* has assembled j - 1 instructions; main runs with both files open and with
\* -h, or with -b as well for the commented lines and the lines that hold no
\* instruction.
EncInit ==
    /\ operands \in Vectors
    /\ pc = "enc_first_pass"
    /\ argc = 4
    /\ flag \in (IF operands.kind \in { "comment", "other" }
                 THEN { Flag.h, Flag.b } ELSE { Flag.h })
    /\ input_file = << LabelLineOf(operands), InstructionLineOf(operands) >>
    /\ output_file = << >>
    /\ input_open = TRUE
    /\ output_open = TRUE
    /\ pos = 0
    /\ line = << >>
    /\ labelTable = << >>
    /\ labelCount = 0
    /\ instruction_count = operands.k - 1
    /\ instruction_count2 = operands.j - 1
    /\ machine_code = Zero32
    /\ exit_code = -1

\* first_pass on the label's line, as the first loop of main calls it.
EncFirstPass ==
    /\ pc = "enc_first_pass"
    /\ FirstPassCall(replaceCommas(removeComment(input_file[1])), "enc_assemble")
    /\ UNCHANGED << exit_code, inputs, files, instruction_count2, machine_code >>

\* assemble_instruction on the instruction's line and the output of its word,
\* as the second loop of main does them.
EncAssemble ==
    /\ pc = "enc_assemble"
    /\ SecondPassCall(replaceCommas(removeComment(input_file[2])), "enc_done")
    /\ UNCHANGED << exit_code, inputs, input_open, output_open, pos,
                    labelTable, labelCount, instruction_count >>

EncNext == EncFirstPass \/ EncAssemble

EncSpec == EncInit /\ [][EncNext]_vars

\* ------------------------------------------------------------------------
\* Many labels: main on files that define about MAX_INSTRUCTIONS labels.
\* ------------------------------------------------------------------------

\* The longest file defines MaxLabels labels.
MaxLabels == 102

\* Files of n lines "L0: addi x1, x1, 1", "L1: addi x1, x1, 1", ..., for n
\* from MAX_INSTRUCTIONS - 1 to MaxLabels.
LongFiles ==
    { [i \in 1..n |->
          << "L" >> \o Numeral(i - 1, 10, HexDigits) \o Word.colon \o SP
          \o Line3(Txt.addi, Txt.x1, Txt.x1, Word.one)] :
        n \in (MAX_INSTRUCTIONS - 1)..MaxLabels }

\* The globals and main's locals before main runs on such a file.
TableInit ==
    /\ pc = "main"
    /\ \E c \in CommandLines : argc = c.argc /\ flag = c.flag
    /\ input_file \in LongFiles
    /\ output_file = << >>
    /\ input_open = FALSE
    /\ output_open = FALSE
    /\ pos = 0
    /\ line = << >>
    /\ labelTable = << >>
    /\ labelCount = 0
    /\ instruction_count = 0
    /\ instruction_count2 = 0
    /\ machine_code = Zero32
    /\ exit_code = -1
    /\ operands = [kind |-> "file"]

TableSpec == TableInit /\ [][Next]_vars

\* ------------------------------------------------------------------------
\* Properties
\* ------------------------------------------------------------------------

\* The value of bits hi..lo of a word (hi - lo < 31).
RECURSIVE Field(_, _, _)
Field(w, hi, lo) == IF hi < lo THEN 0 ELSE w[lo] + 2 * Field(w, hi, lo + 1)

\* v is a signed integer of the given number of bits.
Fits(v, bits) == -(2^(bits - 1)) <= v /\ v < 2^(bits - 1)

\* The instruction under test has been assembled.
Assembled == pc = "enc_done"

\* The byte offset from the instruction at index j to the label at index k.
Offset == (operands.k - operands.j) * 4

\* The offset a processor decodes from a B-type and from a J-type word.
BOffset(w) == 2 * Field(w, 11, 8) + 32 * Field(w, 30, 25) + 2048 * w[7] - 4096 * w[31]
JOffset(w) ==
    2 * Field(w, 30, 21) + 2048 * w[20] + 4096 * Field(w, 19, 12) - 1048576 * w[31]

\* The word assemble_instruction returns for another line at the same index,
\* with the same label table.
WordOf(text) ==
    assemble_instruction(replaceCommas(removeComment(text)),
                         [labelTable |-> labelTable, labelCount |-> labelCount],
                         operands.j - 1).machine_code

\* funct3 and funct7 of the RV32I instruction set manual.
ISA ==
    { [opcode |-> Txt.add, funct3 |-> 0, funct7 |-> 0],
      [opcode |-> Txt.sub, funct3 |-> 0, funct7 |-> 32],
      [opcode |-> Txt.sll, funct3 |-> 1, funct7 |-> 0],
      [opcode |-> Txt.slt, funct3 |-> 2, funct7 |-> 0],
      [opcode |-> Txt.sltu, funct3 |-> 3, funct7 |-> 0],
      [opcode |-> Txt.xor, funct3 |-> 4, funct7 |-> 0],
      [opcode |-> Txt.srl, funct3 |-> 5, funct7 |-> 0],
      [opcode |-> Txt.sra, funct3 |-> 5, funct7 |-> 32],
      [opcode |-> Txt.or, funct3 |-> 6, funct7 |-> 0],
      [opcode |-> Txt.and, funct3 |-> 7, funct7 |-> 0],
      [opcode |-> Txt.addi, funct3 |-> 0, funct7 |-> 0],
      [opcode |-> Txt.slti, funct3 |-> 2, funct7 |-> 0],
      [opcode |-> Txt.sltiu, funct3 |-> 3, funct7 |-> 0],
      [opcode |-> Txt.xori, funct3 |-> 4, funct7 |-> 0],
      [opcode |-> Txt.ori, funct3 |-> 6, funct7 |-> 0],
      [opcode |-> Txt.andi, funct3 |-> 7, funct7 |-> 0],
      [opcode |-> Txt.jalr, funct3 |-> 0, funct7 |-> 0],
      [opcode |-> Txt.slli, funct3 |-> 1, funct7 |-> 0],
      [opcode |-> Txt.srli, funct3 |-> 5, funct7 |-> 0],
      [opcode |-> Txt.srai, funct3 |-> 5, funct7 |-> 32],
      [opcode |-> Txt.lb, funct3 |-> 0, funct7 |-> 0],
      [opcode |-> Txt.lh, funct3 |-> 1, funct7 |-> 0],
      [opcode |-> Txt.lw, funct3 |-> 2, funct7 |-> 0],
      [opcode |-> Txt.lbu, funct3 |-> 4, funct7 |-> 0],
      [opcode |-> Txt.lhu, funct3 |-> 5, funct7 |-> 0],
      [opcode |-> Txt.sb, funct3 |-> 0, funct7 |-> 0],
      [opcode |-> Txt.sh, funct3 |-> 1, funct7 |-> 0],
      [opcode |-> Txt.sw, funct3 |-> 2, funct7 |-> 0] }

Manual(opcode) == CHOOSE e \in ISA : e.opcode = opcode

\* C1: for a label at index k and a beq/bne/blt/bge/bltu/bgeu at index j whose
\* offset (k - j) * 4 fits in 13 signed bits, the word holds offset bit 12 in
\* inst[31], bits 10:5 in inst[30:25], bits 4:1 in inst[11:8] and bit 11 in
\* inst[7], so that the B-type field decodes to (k - j) * 4; and the bne of
\* "loop: addi x1, x1, 1 / bne x1, x2, loop" is written as 0xFE209EE3.
C1_BranchScatter ==
    (/\ Assembled
     /\ operands.kind = "B"
     /\ operands.opcode \in { Txt.beq, Txt.bne, Txt.blt, Txt.bge, Txt.bltu, Txt.bgeu }
     /\ Fits(Offset, 13))
    => /\ machine_code[31] = Bits(Offset)[12]
       /\ \A i \in 5..10 : machine_code[20 + i] = Bits(Offset)[i]
       /\ \A i \in 1..4 : machine_code[7 + i] = Bits(Offset)[i]
       /\ machine_code[7] = Bits(Offset)[11]
       /\ BOffset(machine_code) = Offset
       /\ (/\ operands.text = Line3(Txt.bne, Txt.x1, Txt.x2, Word.loop)
           /\ operands.k = 1
           /\ operands.j = 2)
          => output_file = << << "0", "x", "F", "E", "2", "0", "9", "E", "E", "3", "\n" >> >>

\* C2: for a label at index k and a "jal rd, label" at index j whose offset
\* (k - j) * 4 fits in 21 signed bits, the word has opcode 1101111, rd in
\* inst[11:7], offset bit 20 in inst[31], bits 10:1 in inst[30:21], bit 11 in
\* inst[20] and bits 19:12 in inst[19:12], so that the J-type field decodes
\* to (k - j) * 4.
C2_JalScatter ==
    (Assembled /\ operands.kind = "J" /\ Fits(Offset, 21))
    => /\ Field(machine_code, 6, 0) = \b1101111
       /\ Field(machine_code, 11, 7) = operands.rd.num
       /\ machine_code[31] = Bits(Offset)[20]
       /\ \A i \in 1..10 : machine_code[20 + i] = Bits(Offset)[i]
       /\ machine_code[20] = Bits(Offset)[11]
       /\ \A i \in 12..19 : machine_code[i] = Bits(Offset)[i]
       /\ JOffset(machine_code) = Offset

\* A jal ra one instruction behind its label: offset -4, written 0xFFDFF0EF.
C2_Witness ==
    /\ Assembled
    /\ operands.kind = "J"
    /\ operands.rd = Abi.ra
    /\ operands.k = 1
    /\ operands.j = 2
    /\ JOffset(machine_code) = -4
    /\ output_file = << << "0", "x", "F", "F", "D", "F", "F", "0", "E", "F", "\n" >> >>

\* The number of lines of the input file that hold a recognised instruction.
RecognisedLines == Cardinality({ i \in 1..Len(input_file) : Recognised(input_file[i]) })

C4_RType ==
    (Assembled /\ operands.kind = "R")
    => /\ Field(machine_code, 31, 25) = Manual(operands.opcode).funct7
       /\ Field(machine_code, 24, 20) = operands.rs2.num
       /\ Field(machine_code, 19, 15) = operands.rs1.num
       /\ Field(machine_code, 14, 12) = Manual(operands.opcode).funct3
       /\ Field(machine_code, 11, 7) = operands.rd.num
       /\ Field(machine_code, 6, 0) = \b0110011
       /\ operands.text = Line3(Txt.add, Txt.x1, Txt.x2, Txt.x3)
          => output_file = << << "0", "x", "0", "0", "3", "1", "0", "0", "B", "3", "\n" >> >>

\* "sub x31, x1, x0" has been assembled: funct7 0100000, all three register
\* fields different.
C4_Witness ==
    /\ Assembled
    /\ operands.text = Line3(Txt.sub, Txt.x31, Txt.x1, Txt.x0)
    /\ Field(machine_code, 31, 25) = \b0100000
    /\ Field(machine_code, 24, 20) = 0
    /\ Field(machine_code, 19, 15) = 1
    /\ Field(machine_code, 11, 7) = 31

C6_ShiftAmount ==
    (Assembled /\ operands.kind = "shift")
    => /\ Field(machine_code, 31, 25) = Manual(operands.opcode).funct7
       /\ Field(machine_code, 24, 20) = operands.imm.value % 32

C8_UType ==
    /\ (/\ Assembled
        /\ operands.kind = "U"
        /\ operands.imm.value \in 0..1048575)
       => /\ Field(machine_code, 31, 12) = operands.imm.value
          /\ Field(machine_code, 11, 7) = operands.rd.num
          /\ Field(machine_code, 6, 0) =
               (IF operands.opcode = Txt.lui THEN \b0110111 ELSE \b0010111)
          /\ operands.text = Line2(Txt.lui, Txt.x5, HexLit(74565, HexDigits).literal)
             => output_file = << << "0", "x", "1", "2", "3", "4", "5", "2", "B", "7", "\n" >> >>
    /\ (/\ Assembled
        /\ operands.text = Line3(Txt.addi, Txt.x5, Txt.x5, HexLit(1656, HexDigits).literal))
       => output_file = << << "0", "x", "6", "7", "8", "2", "8", "2", "9", "3", "\n" >> >>

\* "auipc x31, 0xABCDE" has been assembled from an upper-case literal.
C8_Witness ==
    /\ Assembled
    /\ operands.text = Line2(Txt.auipc, Txt.x31, HexLit(703710, UpperHexDigits).literal)
    /\ Field(machine_code, 31, 12) = 703710
    /\ Field(machine_code, 11, 7) = 31
    /\ Field(machine_code, 6, 0) = \b0010111

\* C9: for all registers rs, rt and every label L whose offset, forward or
\* backward, fits in 13 signed bits, at the same index "bgt rs, rt, L" is the
\* word of "blt rt, rs, L" and "ble rs, rt, L" is the word of "bge rt, rs, L".
C9_SwappedBranches ==
    (Assembled /\ operands.kind = "B" /\ Fits(Offset, 13))
    => /\ operands.opcode = Txt.bgt
          => machine_code = WordOf(Line3(Txt.blt, operands.rs2.name,
                                         operands.rs1.name, Word.loop))
       /\ operands.opcode = Txt.ble
          => machine_code = WordOf(Line3(Txt.bge, operands.rs2.name,
                                         operands.rs1.name, Word.loop))

\* C10: at the same index "li rd, imm" is the word of "addi rd, x0, imm" for
\* every 12-bit imm ("li t0, 42" is 0x02A00293), "j label" the word of
\* "jal x0, label" for every offset, "jr rs" the word of "jalr x0, rs, 0" and
\* "ret" the word of "jalr x0, ra, 0".
C10_Pseudo ==
    Assembled
    => /\ operands.kind = "li"
          => /\ machine_code = WordOf(Line3(Txt.addi, operands.rd.name, Txt.x0,
                                            operands.imm.literal))
             /\ operands.text = Line2(Txt.li, Txt.t0, DecLit(42).literal)
                => output_file = << << "0", "x", "0", "2", "A", "0", "0", "2", "9", "3", "\n" >> >>
       /\ operands.kind = "j"
          => machine_code = WordOf(Line2(Txt.jal, Txt.x0, Word.loop))
       /\ operands.kind = "jr"
          => machine_code = WordOf(Line3(Txt.jalr, Txt.x0, operands.rs1.name,
                                         DecLit(0).literal))
       /\ operands.kind = "ret"
          => machine_code = WordOf(Line3(Txt.jalr, Txt.x0, Txt.ra, DecLit(0).literal))

\* "li t0, 42" has been assembled and written as 0x02A00293.
C10_Witness ==
    /\ Assembled
    /\ operands.text = Line2(Txt.li, Txt.t0, DecLit(42).literal)
    /\ output_file = << << "0", "x", "0", "2", "A", "0", "0", "2", "9", "3", "\n" >> >>

LineOf(v, rd, rs1, rs2) ==
    CASE v.kind = "R" -> Line3(v.opcode, rd, rs1, rs2)
      [] v.kind \in { "I", "shift" } -> Line3(v.opcode, rd, rs1, v.imm.literal)
      [] v.kind \in { "load", "store" } -> MemLine(v.opcode, rd, v.imm.literal, rs1)
      [] v.kind \in { "U", "li" } -> Line2(v.opcode, rd, v.imm.literal)
      [] v.kind = "B" -> Line3(v.opcode, rs1, rs2, Word.loop)
      [] v.kind = "J" -> Line2(v.opcode, rd, Word.loop)
      [] v.kind = "mv" -> Line2(v.opcode, rd, rs1)
      [] v.kind = "jr" -> Line1(v.opcode, rs1)
      [] OTHER -> v.text

\* The registers the instruction under test names.
Named(v) == { r \in { v.rd, v.rs1, v.rs2 } : r.name # << >> }

\* C12: for every register index n, get_register_number returns n for xn and
\* for the ABI alias of xn, and an instruction written with ABI aliases is
\* the word of the same instruction written with the numeric names.
C12_Aliases ==
    (/\ Assembled
     /\ operands.kind \in { "R", "I", "shift", "load", "store", "U", "li", "B", "J",
                            "mv", "jr" }
     /\ \A r \in Named(operands) : r.num \in 0..31)
    => /\ \A r \in Named(operands) :
            /\ get_register_number(r.name) = r.num
            /\ get_register_number(Reg(r.num).name) = r.num
            /\ get_register_number(AbiReg(r.num).name) = r.num
       /\ machine_code = WordOf(LineOf(operands, Reg(operands.rd.num).name,
                                       Reg(operands.rs1.num).name,
                                       Reg(operands.rs2.num).name))

\* "add s11, x2, x3" has been assembled with rd = 27.
C12_Witness ==
    /\ Assembled
    /\ operands.text = Line3(Txt.add, Txt.s11, Txt.x2, Txt.x3)
    /\ operands.rd = AbiReg(27)
    /\ Field(machine_code, 11, 7) = 27

\* C13: an operand other than x0..x31 and the 32 ABI names is an invalid
\* register: get_register_number returns -1 for it, and an instruction that
\* uses it is not encoded with some register index: no word is written.
C13_InvalidRegister ==
    (Assembled /\ operands.kind = "bad_register")
    => /\ \A r \in Named(operands) : get_register_number(r.name) = r.num
       /\ output_file = << >>

\* C14: in pass one the definition of a label name that is already in the
\* symbol table is not inserted: after any sequence of first_pass calls the
\* table holds at most one entry per name, and a run that met a second
\* definition does not end in success.
C14_NoDuplicateLabels ==
    /\ \A a, b \in 0..(labelCount - 1) :
          a # b => labelTable[a].label # labelTable[b].label
    /\ (/\ pc = "returned"
        /\ \E a, b \in 1..Len(input_file) :
              a # b /\ input_file[a] = L_loop.text /\ input_file[b] = L_loop.text)
       => exit_code # 0

\* C15: in pass two a branch, jal or j whose label is not in the symbol
\* table produces no machine word from the -1 of find_label_address.
C15_UnresolvedLabel ==
    (/\ Assembled
     /\ operands.kind = "unresolved"
     /\ find_label_address([labelTable |-> labelTable, labelCount |-> labelCount],
                           Word.end) = -1)
    => output_file = << >>

\* The instruction under test has an immediate or an offset outside the
\* range of its encoding family.
OutOfRange ==
    \/ operands.kind = "out_of_range"
    \/ operands.kind = "B" /\ ~Fits(Offset, 13)
    \/ operands.kind \in { "J", "j" } /\ ~Fits(Offset, 21)

\* C16: an I- or S-type immediate outside -2048..2047, a U-type immediate
\* outside 0..2^20-1, a B-type offset outside 13 signed bits and a J-type
\* offset outside 21 signed bits produce no output word.
C16_OutOfRange ==
    (Assembled /\ OutOfRange) => output_file = << >>

\* C17: a run over a file that holds a line with an unknown mnemonic ("nop")
\* or with the wrong number of operands for its mnemonic ("add x1, x2") does
\* not return success: the line is an error of pass two, not skipped.
C17_UnknownReported ==
    (/\ pc = "returned"
     /\ \E i \in 1..Len(input_file) : input_file[i] \in { L_nop.text, L_short.text })
    => exit_code # 0

\* C20: main requires exactly three positional arguments (argc = 4) and a
\* third argument equal to -h or -b.  With any other argument count or any
\* other third argument it never enters either pass and returns 1; with
\* three valid arguments it returns 0 unless an fopen failed, in which case it
\* returns 1 with nothing written.
C20_Usage ==
    /\ (argc # 4 \/ ~(isHex \/ isBin))
       => /\ pc \in { "main", "fopen_input", "fopen_output", "check_flag", "returned" }
          /\ pc = "returned" => exit_code = 1
    /\ (argc = 4 /\ (isHex \/ isBin) /\ pc = "returned")
       => /\ exit_code \in { 0, 1 }
          /\ exit_code = 1 => output_file = << >> /\ instruction_count2 = 0

\* What pass one builds from the label's line without its comment.
PlainFirstPass ==
    first_pass(replaceCommas(removeComment(PlainLabelLineOf(operands))),
               [labelTable |-> << >>, labelCount |-> 0], operands.k - 1, << >>)

\* C18: appending "# arbitrary text" to a well-formed line (an instruction, a
\* labelled instruction, or a label with an empty body) changes neither the
\* symbol table and instruction count pass one builds nor the word pass two
\* emits: they are those of the same two lines without the comment.
C18_CommentInvariance ==
    (Assembled /\ operands.kind \in { "comment", "comment_on_label", "comment_on_labelled" })
    => /\ labelTable = PlainFirstPass.tab.labelTable
       /\ labelCount = PlainFirstPass.tab.labelCount
       /\ instruction_count = PlainFirstPass.instruction_count
       /\ machine_code =
              assemble_instruction(replaceCommas(removeComment(operands.text)),
                                   PlainFirstPass.tab, operands.j - 1).machine_code

\* C19: for a recognised instruction, replacing each separator between its
\* tokens by any non-empty mix of spaces and commas yields the same count in
\* first_pass and the same word from assemble_instruction as the line written
\* with the usual separators; both calls return.
C19_SeparatorInvariance ==
    (operands.kind \in SeparatorKinds)
    => /\ pc # "killed"
       /\ pc \in { "enc_assemble", "enc_done" }
          => instruction_count =
                 first_pass(replaceCommas(removeComment(operands.text)),
                            [labelTable |-> << >>, labelCount |-> 0],
                            operands.k - 1, << >>).instruction_count
       /\ Assembled => machine_code = WordOf(operands.text)

\* C24: on every path by which main returns (wrong argument count, failed
\* fopen, invalid output flag, failed reopen, success) every file handle main
\* has opened has been closed before the return.
C24_HandlesClosed ==
    pc = "returned" => ~input_open /\ ~output_open

\* C23: labelTable, labelCount and instruction_count change only in a
\* first_pass call; a first_pass call leaves instruction_count2 unchanged; an
\* assemble_instruction call leaves labelTable, labelCount and
\* instruction_count unchanged; and once the first loop has ended no
\* first_pass call follows, so every first_pass call precedes the first
\* assemble_instruction call.
C23_Frame ==
    [][ /\ << labelTable, labelCount, instruction_count >>'
             # << labelTable, labelCount, instruction_count >>
           => pc = "pass1" /\ pos < Len(input_file)
        /\ pc = "pass1" => instruction_count2' = instruction_count2
        /\ instruction_count2' # instruction_count2 => pc = "pass2"
        /\ pc = "pass2" => UNCHANGED << labelTable, labelCount, instruction_count >>
        /\ pc \in { "reopen_input", "reopen_output", "pass2", "returned" }
           => pc' # "pass1" ]_vars

\* Pass two has assembled an instruction with a label in the table that pass
\* one built.
C23_Witness ==
    /\ pc = "pass2"
    /\ pos >= 1
    /\ labelCount >= 1
    /\ instruction_count >= 1
    /\ instruction_count2 >= 1

\* C25: after any sequence of first_pass calls labelCount is at most
\* MAX_INSTRUCTIONS and add_label has written only to the entries
\* 0..MAX_INSTRUCTIONS-1 of labelTable, whatever the number of label
\* definitions in the input.
C25_TableBound ==
    /\ labelCount <= MAX_INSTRUCTIONS
    /\ DOMAIN labelTable \subseteq 0..(MAX_INSTRUCTIONS - 1)

Cleaned(i) == replaceCommas(removeComment(input_file[i]))

\* The lines among the first p that first_pass counts, that
\* assemble_instruction counts, and that define a label.
PassOneLines(p) ==
    { i \in 1..p :
        first_pass(Cleaned(i), [labelTable |-> << >>, labelCount |-> 0], 0,
                   << >>).instruction_count = 1 }

PassTwoLines(p) ==
    { i \in 1..p :
        assemble_instruction(Cleaned(i), [labelTable |-> << >>, labelCount |-> 0],
                             0).instruction_count2 = 1 }

LabelLines(p) == { i \in 1..p : splitString(Cleaned(i)).after # << >> }

====
